---- MODULE Spec2Model ----
(***************************************************************************)
(* AML QuickLook dashboard (src/app.py): the metric engine, the spotlight  *)
(* rules, the narrative serialisation and the Streamlit script that runs   *)
(* them on an uploaded transaction table and a picked date window.         *)
(*                                                                         *)
(* A DataFrame is a sequence of rows; a row is a record                    *)
(*   [day, hour, amount, country, channel]                                 *)
(* whose tx_datetime is day*24 + hour (hours since the epoch).  Amounts    *)
(* are integers (an int64 amount column).  A float is an exact fraction    *)
(* [n, d]; d = 0 encodes the IEEE specials: [0,0] is NaN, [1,0] is +inf.   *)
(* A Python/NumPy scalar is [kind, val] so that the JSON boundary can tell *)
(* a builtin from a NumPy scalar.                                          *)
(***************************************************************************)
EXTENDS Integers, Sequences, FiniteSets, TLC

VARIABLES api_key, uploaded, df, win, dfw, kpi, dom, spots, h, cm, ex,
          want_note, note

vars == <<api_key, uploaded, df, win, dfw, kpi, dom, spots, h, cm, ex,
          want_note, note>>

-----------------------------------------------------------------------------
(* Bounds and input domains *)

MaxTx == 4

Tx(d, hr, a, c, ch) ==
    [day |-> d, hour |-> hr, amount |-> a, country |-> c, channel |-> ch]

\* The rows a CSV may be made of: the four rows of the all-domestic example,
\* an international withdrawal of 10 and a withdrawal of 120 ninety days
\* later, and a zero-amount row.
Pool ==
    { Tx(0,  14,  100, "ZA", "EFT"),
      Tx(0,  14,  200, "ZA", "EFT"),
      Tx(0,   9,  300, "ZA", "ATM"),
      Tx(0,  14,  -50, "ZA", "ATM"),
      Tx(90, 14,  -10, "US", "CARD"),
      Tx(90,  9, -120, "ZA", "EFT"),
      Tx(90, 23,    0, "ZA", "EFT") }

\* The dates the date picker may return (day 50 has no transaction).
PickDays == {0, 50, 90}

Tables == UNION { [1..n -> Pool] : n \in 1..MaxTx }

\* Lexicographic order of the channel labels (groupby sorts its keys).
ChannelOrder == <<"ATM", "CARD", "EFT">>

-----------------------------------------------------------------------------
(* Numbers *)

Abs(x) == IF x < 0 THEN -x ELSE x

Min2(a, b) == IF a < b THEN a ELSE b

RECURSIVE GCD(_, _)
GCD(a, b) == IF b = 0 THEN a ELSE GCD(b, a % b)

\* The float n/d, d > 0, in lowest terms.
Frac(n, d) ==
    LET g == GCD(Abs(n), d) IN [n |-> n \div g, d |-> d \div g]

NaN == [n |-> 0, d |-> 0]
PosInf == [n |-> 1, d |-> 0]

IsNaN(x) == x.n = 0 /\ x.d = 0

\* IEEE comparison a > b: false as soon as one side is NaN.
FGt(a, b) == ~IsNaN(a) /\ ~IsNaN(b) /\ a.n * b.d > b.n * a.d

\* IEEE division a / b for a >= 0 and b > 0 or NaN.
FDiv(a, b) ==
    IF IsNaN(a) \/ IsNaN(b) THEN NaN ELSE Frac(a.n * b.d, a.d * b.n)

\* Python's builtin max(a, b): b only when b > a, so max(NaN, 1) is NaN.
PyMax(a, b) == IF FGt(b, a) THEN b ELSE a

(* Python and NumPy scalars *)
PyInt(v)     == [kind |-> "int", val |-> v]
PyFloat(x)   == [kind |-> "float", val |-> x]
PyBool(b)    == [kind |-> "bool", val |-> b]
NpInt64(v)   == [kind |-> "np.int64", val |-> v]
NpFloat64(x) == [kind |-> "np.float64", val |-> x]
NpBool(b)    == [kind |-> "np.bool_", val |-> b]

-----------------------------------------------------------------------------
(* DataFrame helpers *)

TsOf(r) == r.day * 24 + r.hour

RECURSIVE SumAmount(_)
SumAmount(s) == IF s = <<>> THEN 0 ELSE Head(s).amount + SumAmount(Tail(s))

IsDeposit(r) == r.amount > 0
IsWithdrawal(r) == r.amount < 0

InsertAt(s, i, x) == SubSeq(s, 1, i - 1) \o <<x>> \o SubSeq(s, i, Len(s))

\* df.sort_values("tx_datetime"): the default kind is quicksort, which is
\* not stable, so rows with equal timestamps may come out in any order.
RECURSIVE sort_values(_)
sort_values(s) ==
    IF s = <<>> THEN { <<>> }
    ELSE LET x == Head(s)
             Slots(r) == { i \in 1..(Len(r) + 1) :
                             /\ \A j \in 1..(i - 1) : TsOf(r[j]) <= TsOf(x)
                             /\ \A j \in i..Len(r) : TsOf(r[j]) >= TsOf(x) }
         IN UNION { { InsertAt(r, i, x) : i \in Slots(r) } :
                    r \in sort_values(Tail(s)) }

-----------------------------------------------------------------------------
(* 1. Metric engine *)

totals_zero_as_deposit(t) ==
    LET IsDep(r) == r.amount >= 0
        dep == SelectSeq(t, IsDep)
        wd  == SelectSeq(t, IsWithdrawal)
    IN [deposits    |-> [count |-> PyInt(Len(dep)),
                         value |-> NpInt64(SumAmount(dep))],
        withdrawals |-> [count |-> PyInt(Len(wd)),
                         value |-> NpInt64(Abs(SumAmount(wd)))]]

\* len() is a builtin int; Series.sum() and abs() of it are np.int64.
totals(t) ==
    LET dep == SelectSeq(t, IsDeposit)
        wd  == SelectSeq(t, IsWithdrawal)
    IN [deposits    |-> [count |-> PyInt(Len(dep)),
                         value |-> NpInt64(SumAmount(dep))],
        withdrawals |-> [count |-> PyInt(Len(wd)),
                         value |-> NpInt64(Abs(SumAmount(wd)))]]

\* The elements of a finite set of integers, ascending.
RECURSIVE Ascending(_)
Ascending(S) ==
    IF S = {} THEN <<>>
    ELSE LET m == CHOOSE x \in S : \A y \in S : x <= y
         IN <<m>> \o Ascending(S \ {m})

\* df.assign(hour=...).groupby("hour")["amount"].size(): one entry per hour
\* of day that occurs, keys ascending.
groupby_hour_size(t) ==
    LET keys == Ascending({ t[i].hour : i \in DOMAIN t })
    IN [k \in 1..Len(keys) |->
          [hour |-> keys[k],
           size |-> Cardinality({ i \in DOMAIN t : t[i].hour = keys[k] })]]

hourly_no_reindex(t) == groupby_hour_size(t)

\* .reindex(range(24), fill_value=0)
hourly(t) ==
    LET g == groupby_hour_size(t)
    IN [k \in 1..24 |->
          LET hr == k - 1
              at == { j \in DOMAIN g : g[j].hour = hr }
          IN [hour |-> hr,
              size |-> IF at = {} THEN 0 ELSE g[CHOOSE j \in at : TRUE].size]]

RECURSIVE SumAbsAmount(_)
SumAbsAmount(s) ==
    IF s = <<>> THEN 0 ELSE Abs(Head(s).amount) + SumAbsAmount(Tail(s))

dom_intl_gross(t, home) ==
    LET flags == { t[i].country = home : i \in DOMAIN t }
        grp(f) == LET Test(r) == (r.country = home) = f IN SelectSeq(t, Test)
        row(f) == IF f \in flags
                  THEN [count |-> PyInt(Len(grp(f))),
                        value |-> PyFloat(Frac(SumAbsAmount(grp(f)), 1))]
                  ELSE [count |-> PyInt(0), value |-> PyFloat(Frac(0, 1))]
    IN [domestic |-> row(TRUE), international |-> row(FALSE)]

\* g is indexed by the dom flags that occur; row() is the inner function.
dom_intl(t, home) ==
    LET flags == { t[i].country = home : i \in DOMAIN t }
        grp(f) == LET Test(r) == (r.country = home) = f IN SelectSeq(t, Test)
        g == [f \in flags |-> [count |-> Len(grp(f)),
                               sum   |-> SumAmount(grp(f))]]
        row(f) == IF f \in DOMAIN g
                  THEN [count |-> PyInt(g[f].count),
                        value |-> PyFloat(Frac(Abs(g[f].sum), 1))]
                  ELSE [count |-> PyInt(0), value |-> PyFloat(Frac(0, 1))]
    IN [domestic |-> row(TRUE), international |-> row(FALSE)]

\* A row taken out of the frame t keeps its place in t (its index label).
RowAt(t, i) == [row |-> i, tx |-> t[i]]

extremes_keep_last(t) ==
    LET deps == { i \in DOMAIN t : t[i].amount > 0 }
        wds  == { i \in DOMAIN t : t[i].amount < 0 }
        top(S) == { i \in S : \A j \in S : t[j].amount <= t[i].amount }
        bot(S) == { i \in S : \A j \in S : t[j].amount >= t[i].amount }
        last(S) == CHOOSE i \in S : \A j \in S : j <= i
    IN [largest_deposit    |-> IF deps = {} THEN <<>>
                               ELSE <<RowAt(t, last(top(deps)))>>,
        largest_withdrawal |-> IF wds = {} THEN <<>>
                               ELSE <<RowAt(t, last(bot(wds)))>>]

\* nlargest(1, "amount") / nsmallest(1, "amount") with the default
\* keep="first": of the rows sharing the extreme amount, the first one.
extremes(t) ==
    LET deps == { i \in DOMAIN t : t[i].amount > 0 }
        wds  == { i \in DOMAIN t : t[i].amount < 0 }
        top(S) == { i \in S : \A j \in S : t[j].amount <= t[i].amount }
        bot(S) == { i \in S : \A j \in S : t[j].amount >= t[i].amount }
        first(S) == CHOOSE i \in S : \A j \in S : i <= j
    IN [largest_deposit    |-> IF deps = {} THEN <<>>
                               ELSE <<RowAt(t, first(top(deps)))>>,
        largest_withdrawal |-> IF wds = {} THEN <<>>
                               ELSE <<RowAt(t, first(bot(wds)))>>]

\* groupby("channel")["amount"].agg(count="size", value="sum"): one row per
\* channel that occurs, keys in sorted (lexicographic) order.
groupby_channel_agg(t) ==
    LET Occurs(c) == \E i \in DOMAIN t : t[i].channel = c
        keys == SelectSeq(ChannelOrder, Occurs)
        grp(c) == LET Test(r) == r.channel = c IN SelectSeq(t, Test)
    IN [k \in 1..Len(keys) |->
          [channel |-> keys[k],
           count   |-> Len(grp(keys[k])),
           value   |-> SumAmount(grp(keys[k]))]]

\* sort_values("value", ascending=False) with the default quicksort: every
\* arrangement of the rows that is descending by value is a possible result.
SortDescByValue(rows) ==
    LET n == Len(rows)
        perms == { p \in [1..n -> 1..n] :
                     \A i, j \in 1..n : i # j => p[i] # p[j] }
        desc(p) == \A i \in 1..(n - 1) :
                     rows[p[i]].value >= rows[p[i + 1]].value
    IN { [i \in 1..n |-> rows[p[i]]] : p \in { q \in perms : desc(q) } }

channel_mix_no_abs(t) == SortDescByValue(groupby_channel_agg(t))

\* The set of tables channel_mix may return (.abs() acts on both columns).
channel_mix(t) ==
    LET g == groupby_channel_agg(t)
        a == [k \in DOMAIN g |-> [channel |-> g[k].channel,
                                  count   |-> Abs(g[k].count),
                                  value   |-> Abs(g[k].value)]]
    IN SortDescByValue(a)

-----------------------------------------------------------------------------
(* 2. Spotlight rules *)

HistDays == 90
BurstThreshold == 3

\* A pandas timestamp: NaT, or t hours since the epoch.
NaT == [nat |-> TRUE, t |-> 0]
Stamp(t) == [nat |-> FALSE, t |-> t]

\* Series.max() over tx_datetime: NaT for an empty frame.
MaxStamp(t) ==
    IF t = <<>> THEN NaT
    ELSE Stamp(CHOOSE m \in { TsOf(t[i]) : i \in DOMAIN t } :
                 \A i \in DOMAIN t : TsOf(t[i]) <= m)

\* tx_datetime.dt.hour.value_counts(): hour of day |-> number of rows, over
\* the hours that occur only.
value_counts(t) ==
    [hr \in { t[i].hour : i \in DOMAIN t } |->
       Cardinality({ i \in DOMAIN t : t[i].hour = hr })]

\* The values of vc in ascending order.
RECURSIVE SortedValues(_, _)
SortedValues(vc, S) ==
    IF S = {} THEN <<>>
    ELSE LET k == CHOOSE x \in S : \A y \in S : vc[x] <= vc[y]
         IN <<vc[k]>> \o SortedValues(vc, S \ {k})

\* Series.median(): NaN for an empty series.
Median(vc) ==
    LET s == SortedValues(vc, DOMAIN vc)
        n == Len(s)
    IN IF n = 0 THEN NaN
       ELSE IF n % 2 = 1 THEN Frac(s[(n + 1) \div 2], 1)
       ELSE Frac(s[n \div 2] + s[n \div 2 + 1], 2)

\* Series.max() of the window's value counts: NaN for an empty window.
WinMax(df_win) ==
    LET vc == value_counts(df_win)
    IN IF DOMAIN vc = {} THEN NaN
       ELSE Frac(CHOOSE m \in { vc[k] : k \in DOMAIN vc } :
                   \A k \in DOMAIN vc : vc[k] <= m, 1)

\* df_win.tx_datetime.max() - timedelta(days=90); NaT stays NaT.
HistStart(df_win) ==
    LET T == MaxStamp(df_win)
    IN IF T.nat THEN NaT ELSE Stamp(T.t - HistDays * 24)

\* df_hist[df_hist.tx_datetime >= hist_start]; a comparison with NaT is False.
Baseline(df_win, df_hist) ==
    LET hist_start == HistStart(df_win)
        Keep(r) == ~hist_start.nat /\ TsOf(r) >= hist_start.t
    IN SelectSeq(df_hist, Keep)

\* The median over all 24 hour-of-day buckets, empty ones counted as 0.
HistMedDense(df_win, df_hist) ==
    LET b == Baseline(df_win, df_hist)
    IN Median([hr \in 0..23 |->
                 Cardinality({ i \in DOMAIN b : b[i].hour = hr })])

HistMed(df_win, df_hist) == Median(value_counts(Baseline(df_win, df_hist)))

BurstScore(df_win, df_hist) ==
    FDiv(WinMax(df_win), PyMax(HistMed(df_win, df_hist), Frac(1, 1)))

ImbalanceAtLeast(df_win) ==
    LET dep == SumAmount(SelectSeq(df_win, IsDeposit))
        wd  == Abs(SumAmount(SelectSeq(df_win, IsWithdrawal)))
    IN [flag  |-> IF dep # 0
                  THEN NpBool(~FGt(Frac(6, 5), Frac(wd, dep)))
                  ELSE PyBool(TRUE),
        ratio |-> IF dep # 0 THEN NpFloat64(Frac(wd, dep))
                  ELSE PyFloat(PosInf)]

\* dep and wd are np.int64, so wd/dep is np.float64 and the comparison an
\* np.bool_; the else branches are the builtins True and float("inf").
\* The literal 1.2 is the fraction 6/5: for integer wd and dep below 2^50
\* the rounded quotient exceeds the rounded 1.2 exactly when wd/dep > 6/5.
Imbalance(df_win) ==
    LET dep == SumAmount(SelectSeq(df_win, IsDeposit))
        wd  == Abs(SumAmount(SelectSeq(df_win, IsWithdrawal)))
    IN [flag  |-> IF dep # 0
                  THEN NpBool(FGt(Frac(wd, dep), Frac(6, 5)))
                  ELSE PyBool(TRUE),
        ratio |-> IF dep # 0 THEN NpFloat64(Frac(wd, dep))
                  ELSE PyFloat(PosInf)]

spotlights(df_win, df_hist) ==
    LET score == BurstScore(df_win, df_hist)
    IN [burst     |-> [flag  |-> NpBool(FGt(score, Frac(BurstThreshold, 1))),
                       score |-> NpFloat64(score)],
        imbalance |-> Imbalance(df_win)]

-----------------------------------------------------------------------------
(* 3. Narrative writer *)

\* The kinds json.dumps encodes by itself (np.float64 subclasses float).
JsonNative == {"int", "float", "bool", "str", "NoneType", "np.float64"}

\* isinstance(obj, np.generic)
NpGeneric == {"np.int64", "np.float64", "np.bool_"}

\* to_builtin(obj): the kind of obj.item(), or TypeError.
to_builtin(kind) ==
    IF kind \in NpGeneric
    THEN CASE kind = "np.int64"   -> "int"
           [] kind = "np.float64" -> "float"
           [] kind = "np.bool_"   -> "bool"
    ELSE "TypeError"

\* The scalars of {"metrics": metrics, "spotlights": spots}, in dump order.
PayloadLeaves(metrics, spotlight) ==
    << metrics.totals.deposits.count, metrics.totals.deposits.value,
       metrics.totals.withdrawals.count, metrics.totals.withdrawals.value,
       metrics.domestic_split.domestic.count,
       metrics.domestic_split.domestic.value,
       metrics.domestic_split.international.count,
       metrics.domestic_split.international.value,
       spotlight.burst.flag, spotlight.burst.score,
       spotlight.imbalance.flag, spotlight.imbalance.ratio >>

\* json.dumps(obj, default=...): "ok", or "TypeError" when some scalar is not
\* native and there is no default hook or the hook raises.
json_dumps(leaves, with_default) ==
    LET Encodes(v) ==
          \/ v.kind \in JsonNative
          \/ with_default /\ to_builtin(v.kind) \in JsonNative
    IN IF \A i \in DOMAIN leaves : Encodes(leaves[i]) THEN "ok"
       ELSE "TypeError"

\* json_payload is built with the hook; the prompt embeds a second dump
\* made without it.  An exception ends the call.
narrative(metrics, spotlight) ==
    LET leaves == PayloadLeaves(metrics, spotlight)
        json_payload == json_dumps(leaves, TRUE)
        prompt == IF json_payload = "ok" THEN json_dumps(leaves, FALSE)
                  ELSE "not reached"
    IN [json_payload |-> json_payload,
        prompt       |-> prompt,
        result       |-> IF json_payload = "ok" /\ prompt = "ok"
                         THEN "note" ELSE "TypeError"]

-----------------------------------------------------------------------------
(* 4. Streamlit script: every interaction reruns it from the top *)

Home == "ZA"

NoValue == <<>>

\* dfw = df[(df.tx_datetime >= start) & (df.tx_datetime <= end)], start the
\* first and end the last second of the picked dates.
Window(t, w) ==
    LET InWin(r) == TsOf(r) >= w[1] * 24 /\ TsOf(r) <= w[2] * 24 + 23
    IN SelectSeq(t, InWin)

\* (df.tx_datetime.min().date(), df.tx_datetime.max().date()); df is sorted.
DefaultWindow(t) == <<t[1].day, t[Len(t)].day>>

\* Lines 117-161 for the table d, the window w and the checkbox chk.
Script(d, w, chk) ==
    LET sel == Window(d, w)
    IN /\ df' = d
       /\ win' = w
       /\ dfw' = sel
       /\ kpi' = totals(sel)
       /\ dom' = dom_intl(sel, Home)
       /\ spots' = spotlights(sel, d)
       /\ h' = hourly(sel)
       /\ cm' \in channel_mix(sel)
       /\ ex' = extremes(sel)
       /\ want_note' = chk
       /\ note' = IF api_key /\ chk
                  THEN narrative([totals |-> kpi', domestic_split |-> dom'],
                                 spots')
                  ELSE NoValue
       /\ UNCHANGED api_key

Init ==
    /\ api_key \in BOOLEAN
    /\ uploaded = FALSE
    /\ df = NoValue
    /\ win = NoValue
    /\ dfw = NoValue
    /\ kpi = NoValue
    /\ dom = NoValue
    /\ spots = NoValue
    /\ h = NoValue
    /\ cm = NoValue
    /\ ex = NoValue
    /\ want_note = FALSE
    /\ note = NoValue

\* A CSV is dropped on the uploader: read, sort, default window, render.
\* Replacing the file reruns the script from the top on the new table, which
\* leads to the states a first upload of that table leads to, so the
\* uploads after the first one are not enumerated again.
Upload ==
    /\ ~uploaded
    /\ \E csv \in Tables :
         \E d \in sort_values(csv) :
           /\ uploaded' = TRUE
           /\ Script(d, DefaultWindow(d), want_note)

\* The date picker returns another range.
PickWindow ==
    /\ uploaded
    /\ \E s \in PickDays, e \in PickDays :
         /\ s <= e
         /\ Script(df, <<s, e>>, want_note)
    /\ UNCHANGED uploaded

\* The "Generate analyst note" checkbox, shown only with an API key.
ToggleNote ==
    /\ uploaded
    /\ api_key
    /\ Script(df, win, ~want_note)
    /\ UNCHANGED uploaded

Next == Upload \/ PickWindow \/ ToggleNote

Spec == Init /\ [][Next]_vars

-----------------------------------------------------------------------------
(* Properties.  They speak of the rendered results of the last script run. *)

\* The sum of the amounts of the rows of t whose index is in S.
RECURSIVE SumIdx(_, _)
SumIdx(t, S) ==
    IF S = {} THEN 0
    ELSE LET i == CHOOSE x \in S : TRUE
         IN t[i].amount + SumIdx(t, S \ {i})

Pos(t)  == { i \in DOMAIN t : t[i].amount > 0 }
Neg(t)  == { i \in DOMAIN t : t[i].amount < 0 }
Zero(t) == { i \in DOMAIN t : t[i].amount = 0 }

\* C1: imbalance: when the window's positive amounts sum to 0 the flag is
\* true and the ratio is +infinity (no division is attempted); when the
\* deposit sum dep is positive the flag is true exactly when wd / dep > 1.2,
\* wd the absolute value of the sum of the negative amounts.
C1_ImbalancePolicy ==
    uploaded =>
      LET dep == SumIdx(dfw, Pos(dfw))
          wd  == Abs(SumIdx(dfw, Neg(dfw)))
      IN /\ dep = 0 => /\ spots.imbalance.flag.val = TRUE
                       /\ spots.imbalance.ratio.val = PosInf
         /\ dep > 0 => /\ spots.imbalance.flag.val = (5 * wd > 6 * dep)
                       /\ spots.imbalance.ratio.val.d # 0
                       /\ spots.imbalance.ratio.val.n * dep
                            = wd * spots.imbalance.ratio.val.d

\* A window holding one withdrawal of 10 and no deposit, flagged with an
\* infinite ratio.
C1_Witness ==
    /\ uploaded
    /\ Len(dfw) = 1
    /\ dfw[1].amount = -10
    /\ spots.imbalance.flag.val = TRUE
    /\ spots.imbalance.ratio.val = PosInf

\* All rows of t fall in one hour of day.
OneHour(t) == \A i, j \in DOMAIN t : t[i].hour = t[j].hour

\* C2: burst: the denominator is floored at 1, so a window of n transactions
\* all in one hour of day, with a history that holds nothing but the window,
\* scores n (5 transactions in hour 14 score 5 and are flagged).
C2_BurstFloorGivesWinMax ==
    (uploaded /\ dfw # <<>> /\ df = dfw /\ OneHour(dfw)) =>
      /\ spots.burst.score.val = Frac(Len(dfw), 1)
      /\ spots.burst.flag.val = (Len(dfw) > BurstThreshold)

\* C3: burst: the baseline behind hist_med is exactly the rows of the full
\* table with T - 90 days <= t <= T, T the window's latest timestamp; no
\* later row contributes, whatever window was picked.
C3_BaselineEndsAtWindowEnd ==
    (uploaded /\ dfw # <<>>) =>
      LET T == MaxStamp(dfw).t
          InTrail(r) == TsOf(r) >= T - HistDays * 24 /\ TsOf(r) <= T
          trail == SelectSeq(df, InTrail)
      IN /\ Baseline(dfw, df) = trail
         /\ spots.burst.score.val =
              FDiv(WinMax(dfw), PyMax(Median(value_counts(trail)), Frac(1, 1)))

\* The window is the all-domestic example: amounts 100, 200, 300 and -50.
IsScenarioA(t) ==
    /\ Len(t) = 4
    /\ \A i \in DOMAIN t : t[i].country = Home
    /\ \A a \in {100, 200, 300, -50} : \E i \in DOMAIN t : t[i].amount = a

\* Both sides are present, an empty side reports count 0 and value 0.0, and
\* the two counts add up to the number of rows of the window.
DomIntlShape ==
    LET D == { i \in DOMAIN dfw : dfw[i].country = Home }
        I == { i \in DOMAIN dfw : dfw[i].country # Home }
    IN /\ DOMAIN dom = {"domestic", "international"}
       /\ dom.domestic.count = PyInt(Cardinality(D))
       /\ dom.international.count = PyInt(Cardinality(I))
       /\ D = {} => dom.domestic.value = PyFloat(Frac(0, 1))
       /\ I = {} => dom.international.value = PyFloat(Frac(0, 1))
       /\ dom.domestic.count.val + dom.international.count.val = Len(dfw)

\* C4 as stated: the all-domestic example reports domestic value 650.
C4_ScenarioValue650 ==
    uploaded =>
      /\ DomIntlShape
      /\ IsScenarioA(dfw) =>
           /\ dom.domestic = [count |-> PyInt(4), value |-> PyFloat(Frac(650, 1))]
           /\ dom.international = [count |-> PyInt(0), value |-> PyFloat(Frac(0, 1))]

\* C4 amended: each side's value is the absolute value of the signed sum of
\* its amounts, so the all-domestic example reports domestic count 4 and
\* value 550 and international count 0 and value 0.0; both sides are always
\* present, an empty side reports 0 and 0.0, and the counts add up to the
\* number of rows of the window.
C4_DomIntlNetValue ==
    uploaded =>
      LET D == { i \in DOMAIN dfw : dfw[i].country = Home }
          I == { i \in DOMAIN dfw : dfw[i].country # Home }
      IN /\ DomIntlShape
         /\ dom.domestic.value = PyFloat(Frac(Abs(SumIdx(dfw, D)), 1))
         /\ dom.international.value = PyFloat(Frac(Abs(SumIdx(dfw, I)), 1))
         /\ IsScenarioA(dfw) =>
              /\ dom.domestic = [count |-> PyInt(4), value |-> PyFloat(Frac(550, 1))]
              /\ dom.international = [count |-> PyInt(0), value |-> PyFloat(Frac(0, 1))]

\* The all-domestic example has been rendered.
C4_Witness ==
    /\ uploaded
    /\ IsScenarioA(dfw)
    /\ dom.domestic.count.val = 4
    /\ dom.international.count.val = 0

\* C5: totals: the two counts and the number of zero-amount rows add up to
\* the number of rows; deposits are the strictly positive rows and their sum,
\* withdrawals the strictly negative rows and the non-negative absolute value
\* of their sum; an empty side reports 0 and 0.
C5_TotalsPartition ==
    uploaded =>
      /\ kpi.deposits.count.val + kpi.withdrawals.count.val
           + Cardinality(Zero(dfw)) = Len(dfw)
      /\ kpi.deposits.count.val = Cardinality(Pos(dfw))
      /\ kpi.withdrawals.count.val = Cardinality(Neg(dfw))
      /\ kpi.deposits.value.val = SumIdx(dfw, Pos(dfw))
      /\ kpi.withdrawals.value.val = -SumIdx(dfw, Neg(dfw))
      /\ kpi.withdrawals.value.val >= 0
      /\ Pos(dfw) = {} => kpi.deposits.value.val = 0
      /\ Neg(dfw) = {} => kpi.withdrawals.value.val = 0

\* A window with a deposit, a withdrawal and a zero-amount row.
C5_Witness ==
    /\ uploaded
    /\ Zero(dfw) # {}
    /\ kpi.deposits.count.val >= 1
    /\ kpi.withdrawals.count.val >= 1

RECURSIVE SumSizes(_)
SumSizes(s) == IF s = <<>> THEN 0 ELSE Head(s).size + SumSizes(Tail(s))

\* C6: hourly: exactly 24 entries, indexed 0..23 ascending; entry hr is the
\* number of window rows whose hour of day is hr (0 for a quiet hour); the
\* entries sum to the number of rows of the window.
C6_HourlyDense ==
    uploaded =>
      /\ Len(h) = 24
      /\ \A k \in 1..Min2(24, Len(h)) :
           /\ h[k].hour = k - 1
           /\ h[k].size =
                Cardinality({ i \in DOMAIN dfw : dfw[i].hour = k - 1 })
      /\ SumSizes(h) = Len(dfw)

\* A window with activity in hours 9 and 14 and none in hour 0.
C6_Witness ==
    /\ uploaded
    /\ Len(h) = 24
    /\ h[10].size >= 1
    /\ h[15].size >= 1
    /\ h[1].size = 0

FirstSeen(t, c) ==
    CHOOSE i \in DOMAIN t :
      t[i].channel = c /\ \A j \in DOMAIN t : t[j].channel = c => i <= j

\* One row per channel of the window, valued at the absolute value of the
\* channel's signed sum, rows descending by value.
ChannelMixRows ==
    /\ \A c \in { dfw[i].channel : i \in DOMAIN dfw } :
         Cardinality({ k \in DOMAIN cm : cm[k].channel = c }) = 1
    /\ \A k \in DOMAIN cm :
         LET R == { i \in DOMAIN dfw : dfw[i].channel = cm[k].channel }
         IN /\ R # {}
            /\ cm[k].value = Abs(SumIdx(dfw, R))
            /\ cm[k].count = Cardinality(R)
    /\ \A k \in 1..(Len(cm) - 1) : cm[k].value >= cm[k + 1].value

\* C7 as stated: ... and two channels of equal value appear in the order in
\* which the channels are first met in the input table.
C7_TiesInEncounterOrder ==
    uploaded =>
      /\ ChannelMixRows
      /\ \A k \in 1..(Len(cm) - 1) :
           cm[k].value = cm[k + 1].value =>
             FirstSeen(dfw, cm[k].channel) < FirstSeen(dfw, cm[k + 1].channel)

\* C7 amended: exactly one row per distinct channel of the window, each
\* valued at the absolute value of the channel's signed sum, rows descending
\* by value; the order of two channels of equal value is not fixed by the
\* order of first encounter.
C7_ChannelMixSorted == uploaded => ChannelMixRows

\* Two channels of equal value, rendered against the order of first
\* encounter.
C7_Witness ==
    /\ uploaded
    /\ \E k \in 1..(Len(cm) - 1) :
         /\ cm[k].value = cm[k + 1].value
         /\ FirstSeen(dfw, cm[k].channel) > FirstSeen(dfw, cm[k + 1].channel)

\* C8: extremes: largest_deposit is the first row, in input order, holding
\* the maximum amount among the deposits, largest_withdrawal the first row
\* holding the minimum amount among the withdrawals; an empty side gives an
\* empty result.
C8_ExtremesFirstOccurrence ==
    uploaded =>
      LET Holds(res, S, Better(_, _)) ==
            IF S = {} THEN res = <<>>
            ELSE /\ Len(res) = 1
                 /\ res[1].row \in S
                 /\ res[1].tx = dfw[res[1].row]
                 /\ \A j \in S : ~Better(dfw[j].amount, res[1].tx.amount)
                 /\ \A j \in S : dfw[j].amount = res[1].tx.amount
                                   => res[1].row <= j
          More(a, b) == a > b
          Less(a, b) == a < b
      IN /\ Holds(ex.largest_deposit, Pos(dfw), More)
         /\ Holds(ex.largest_withdrawal, Neg(dfw), Less)

\* Two deposits share the largest amount and the earlier one is returned,
\* while the window has no withdrawal.
C8_Witness ==
    /\ uploaded
    /\ Neg(dfw) = {}
    /\ ex.largest_withdrawal = <<>>
    /\ \E i, j \in Pos(dfw) :
         /\ i < j
         /\ dfw[i].amount = dfw[j].amount
         /\ ex.largest_deposit = <<RowAt(dfw, i)>>

\* C9: narrative: every NumPy scalar of the results is normalised by
\* to_builtin before the serialisation embedded in the prompt, so that
\* serialisation succeeds for any result the engine produces.
C9_PromptSerialises ==
    (uploaded /\ api_key /\ want_note) =>
      /\ note.json_payload = "ok"
      /\ note.prompt = "ok"
      /\ note.result = "note"

\* C10: hist_med is the median over the hour-of-day buckets holding at least
\* one baseline row; so with a non-empty baseline hist_med >= 1, the floor
\* max(hist_med, 1) leaves it unchanged and the burst score, win_max over
\* that median, never exceeds win_max.
C10_MedianOverOccupiedHours ==
    (uploaded /\ Baseline(dfw, df) # <<>>) =>
      LET b == Baseline(dfw, df)
          occupied == { hr \in 0..23 : \E i \in DOMAIN b : b[i].hour = hr }
          med == Median([hr \in occupied |->
                           Cardinality({ i \in DOMAIN b : b[i].hour = hr })])
      IN /\ HistMed(dfw, df) = med
         /\ ~IsNaN(med) /\ ~FGt(Frac(1, 1), med)
         /\ PyMax(HistMed(dfw, df), Frac(1, 1)) = HistMed(dfw, df)
         /\ spots.burst.score.val = FDiv(WinMax(dfw), med)
         /\ ~IsNaN(spots.burst.score.val)
         /\ ~FGt(spots.burst.score.val, WinMax(dfw))

\* A baseline whose median exceeds 1, so that the score is below win_max.
C10_Witness ==
    /\ uploaded
    /\ Baseline(dfw, df) # <<>>
    /\ FGt(HistMed(dfw, df), Frac(1, 1))
    /\ FGt(WinMax(dfw), spots.burst.score.val)

====
